---------------------------- MODULE Spec2Model ----------------------------
(***************************************************************************)
(* Model of the Ethereum dataset updater                                   *)
(* (src/ethereum_dataset_kaggle_auto_updater/kaggle_update_ethereum.py).   *)
(*                                                                         *)
(* Two specifications share the module:                                    *)
(*   SpecMerge  merge_datasets as a function of (existing, incoming, now), *)
(*              applied once to every input drawn from bounded sets;       *)
(*   Spec       the process: module import, the outer retry loop of        *)
(*              __main__, main(), fetch_binance_data and                   *)
(*              create_binance_client with their retry loops, the publish  *)
(*              loop.                                                      *)
(***************************************************************************)
EXTENDS Integers, Sequences, FiniteSets, TLC

---------------------------------------------------------------------------
(* Bounds of the model *)

\* open_time values are 0..MaxTime (in days)
MaxTime == 2

\* longest incoming dataset handed to merge_datasets
MaxIncoming == 3

\* largest number of rows one historical-series request returns
MaxKlines == 1

\* the count of failed uploads saturates here (the loop itself is unbounded)
MaxUploadFails == 2

\* rows of the timestamp column sent through the writers and the reader
MaxRows == 4

\* the column's instants have their part down to the second in 0..MaxWhole
MaxWhole == 1

---------------------------------------------------------------------------
(* Program constants *)

\* pd.Timedelta(days=30)
RetentionDays == 30

\* fetch_binance_data(..., max_retries=3)
FetchMaxRetries == 3

\* time.sleep(20) of the except block of fetch_binance_data
FetchBackoffSeconds == 20

\* create_binance_client(max_retries=3)
ClientMaxRetries == 3

\* max_attempts = 10 in __main__
GlobalMaxAttempts == 10

\* timeframes: 15m, 1h, 4h, 1d, in dict order
NumTimeframes == 4

---------------------------------------------------------------------------
(* Timestamps and records *)

\* pandas NaT: the value of a missing timestamp
NaT == -1

Times == 0..MaxTime

\* Timestamp comparisons: every comparison with NaT is False
TsLt(a, b) == a # NaT /\ b # NaT /\ a < b

TsGe(a, b) == a # NaT /\ b # NaT /\ a >= b

\* A row of a frame: its 'Open time' and the rest of the row, identified by
\* the frame it came from and its row number there.
Row(t, src, i) == [t |-> t, src |-> src, row |-> i]

\* The frame whose i-th row has key ks[i], all rows from source src.
Frame(ks, src) == [i \in 1..Len(ks) |-> Row(ks[i], src, i)]

StrictlyAscending(ks) == \A i \in 1..(Len(ks) - 1) : ks[i] < ks[i + 1]

SeqsUpTo(S, n) == UNION {[1..k -> S] : k \in 0..n}

\* TimeSeriesDataset: keys strictly ascending (hence unique)
ExistingKeySeqs == {ks \in SeqsUpTo(Times, MaxTime + 1) : StrictlyAscending(ks)}

\* A fetched window: any order, repeated keys allowed
IncomingKeySeqs == SeqsUpTo(Times, MaxIncoming)

\* pd.Timestamp.now(tz='UTC'), in days
NowSet == RetentionDays..(RetentionDays + MaxTime + 1)

---------------------------------------------------------------------------
(* merge_datasets *)

RECURSIVE SeriesMinFrom(_, _, _)
SeriesMinFrom(df, i, acc) ==
    IF i > Len(df) THEN acc
    ELSE SeriesMinFrom(df, i + 1,
            IF df[i].t = NaT THEN acc
            ELSE IF acc = NaT \/ df[i].t < acc THEN df[i].t ELSE acc)

\* Series.min(): the least value, missing values skipped; NaT when there is none
SeriesMin(df) == SeriesMinFrom(df, 1, NaT)

\* Python's min(a, b): b when b < a, else a
PyMin(a, b) == IF TsLt(b, a) THEN b ELSE a

\* cutoff_date = now - 30 days
CutoffDate(now) == now - RetentionDays

\* filter_date = min(cutoff_date, new_data_start)
FilterDateCutoffOnly(new_data, now) == CutoffDate(now)

FilterDate(new_data, now) == PyMin(CutoffDate(now), SeriesMin(new_data))

ExistingRecentStrict(existing_data, filter_date) ==
    SelectSeq(existing_data, LAMBDA r : TsLt(filter_date, r.t))

\* existing_data[existing_data['Open time'] >= filter_date]
ExistingRecent(existing_data, filter_date) ==
    SelectSeq(existing_data, LAMBDA r : TsGe(r.t, filter_date))

\* existing_data[existing_data['Open time'] < filter_date]
ExistingOld(existing_data, filter_date) ==
    SelectSeq(existing_data, LAMBDA r : TsLt(r.t, filter_date))

RECURSIVE DropFrom(_, _, _)
DropFrom(df, i, acc) ==
    IF i > Len(df) THEN acc
    ELSE DropFrom(df, i + 1,
            IF \E j \in 1..Len(acc) : acc[j].t = df[i].t THEN acc
            ELSE Append(acc, df[i]))

RECURSIVE DropKeepLastFrom(_, _, _)
DropKeepLastFrom(df, i, acc) ==
    IF i > Len(df) THEN acc
    ELSE DropKeepLastFrom(df, i + 1,
            IF \E j \in (i + 1)..Len(df) : df[j].t = df[i].t THEN acc
            ELSE Append(acc, df[i]))

DropDuplicatesKeepLast(df) == DropKeepLastFrom(df, 1, <<>>)

DropDuplicatesNone(df) == df

\* drop_duplicates(subset='Open time'): the first row of every key is kept
\* (two missing keys count as equal)
DropDuplicates(df) == DropFrom(df, 1, <<>>)

\* the order of sort_values: ascending, missing keys last
SortsBefore(a, b) == a # NaT /\ (b = NaT \/ a < b)

RECURSIVE InsertRow(_, _)
InsertRow(sorted, r) ==
    IF sorted = <<>> THEN <<r>>
    ELSE IF SortsBefore(r.t, Head(sorted).t) THEN <<r>> \o sorted
         ELSE <<Head(sorted)>> \o InsertRow(Tail(sorted), r)

RECURSIVE SortFrom(_, _, _)
SortFrom(df, i, acc) ==
    IF i > Len(df) THEN acc ELSE SortFrom(df, i + 1, InsertRow(acc, df[i]))

\* sort_values(by='Open time'); rows of equal key keep their order here (the
\* frames merge_datasets sorts have no equal keys when existing has none)
SortValues(df) == SortFrom(df, 1, <<>>)

\* merged_recent: concat, drop_duplicates, sort_values
MergedRecent(existing_recent, new_data) ==
    SortValues(DropDuplicates(existing_recent \o new_data))

MergeRaisesNever(existing_data, new_data) == FALSE

\* iloc[0] of an empty column raises IndexError
MergeRaises(existing_data, new_data) ==
    Len(existing_data) = 0 \/ Len(new_data) = 0

\* final_data of merge_datasets
MergeDatasets(existing_data, new_data, now) ==
    LET filter_date == FilterDate(new_data, now)
        existing_recent == ExistingRecent(existing_data, filter_date)
        existing_old == ExistingOld(existing_data, filter_date)
    IN  SortValues(existing_old \o MergedRecent(existing_recent, new_data))

---------------------------------------------------------------------------
(* Timestamp text: what fetch_binance_data and merge_datasets write into   *)
(* the 'Open time' and 'Close time' columns, and how merge_datasets reads  *)
(* it back.  An instant is its part down to the second (whole) and its     *)
(* milliseconds; a text is that same part, written by '%Y-%m-%d %H:%M:%S', *)
(* followed by the characters after it (tail).                             *)

Instant(w, f) == [whole |-> w, ms |-> f]

\* NaT as an instant
NaTInstant == [whole |-> -1, ms |-> 0]

\* a missing cell (float nan, written as an empty field)
NaNText == [whole |-> -1, tail |-> <<>>]

DigitChars == <<"0", "1", "2", "3", "4", "5", "6", "7", "8", "9">>

Digit(d) == DigitChars[d + 1]

IsDigit(c) == \E d \in 0..9 : DigitChars[d + 1] = c

DigitValue(c) == CHOOSE d \in 0..9 : DigitChars[d + 1] = c

UtcSuffix == <<" ", "U", "T", "C">>

\* the three digits of the milliseconds
MsDigits(f) == <<Digit(f \div 100), Digit((f \div 10) % 10), Digit(f % 10)>>

\* dt.strftime('%Y-%m-%d %H:%M:%S.%f UTC') of one value: %f is the six
\* digits of the microseconds; NaT gives a missing cell
Strftime(t) ==
    IF t = NaTInstant THEN NaNText
    ELSE [whole |-> t.whole,
          tail |-> <<".">> \o MsDigits(t.ms) \o <<"0", "0", "0">> \o UtcSuffix]

\* .str[:-3] of one value: the last three characters are cut
StrDropLast3(x) ==
    IF x = NaNText THEN NaNText
    ELSE [x EXCEPT !.tail = SubSeq(x.tail, 1, Len(x.tail) - 3)]

\* [:-3] of a Series: the last three rows are cut
SeriesDropLast3(col) == SubSeq(col, 1, Len(col) - 3)

\* df[column] = series: aligned on the index, rows the series lacks are NaN
AssignColumn(n, series) ==
    [i \in 1..n |-> IF i <= Len(series) THEN series[i] ELSE NaNText]

\* pd.to_datetime(column, unit='ms', utc=True), then strftime(...)[:-3]
\* assigned back: the column fetch_binance_data writes
FetchWriteColumn(raw) ==
    AssignColumn(Len(raw),
                 SeriesDropLast3([i \in 1..Len(raw) |-> Strftime(raw[i])]))

\* dt.strftime(...).str[:-3]: the column merge_datasets writes
MergeWriteColumn(col) ==
    [i \in 1..Len(col) |-> StrDropLast3(Strftime(col[i]))]

\* 'UTC' in sample, sample being str() of the first cell ('nan' when missing)
HasUTC(x) ==
    \E i \in 1..(Len(x.tail) - 2) :
        x.tail[i] = "U" /\ x.tail[i + 1] = "T" /\ x.tail[i + 2] = "C"

\* the digits that follow the point
RECURSIVE DigitsFrom(_, _)
DigitsFrom(tail, i) ==
    IF i <= Len(tail) /\ IsDigit(tail[i])
    THEN <<tail[i]>> \o DigitsFrom(tail, i + 1)
    ELSE <<>>

FractionDigits(tail) ==
    IF Len(tail) >= 1 /\ tail[1] = "." THEN DigitsFrom(tail, 2) ELSE <<>>

\* what follows the fraction
AfterFraction(tail) ==
    LET k == Len(FractionDigits(tail))
    IN  IF Len(tail) >= 1 /\ tail[1] = "."
        THEN SubSeq(tail, k + 2, Len(tail)) ELSE tail

\* milliseconds of a fraction of 1 to 6 digits
FractionMs(ds) ==
    LET d(i) == IF i <= Len(ds) THEN DigitValue(ds[i]) ELSE 0
    IN  d(1) * 100 + d(2) * 10 + d(3)

\* format='%Y-%m-%d %H:%M:%S.%f UTC': a point, 1 to 6 digits, ' UTC'
MatchesUtcFormat(x) ==
    /\ Len(x.tail) >= 1 /\ x.tail[1] = "."
    /\ Len(FractionDigits(x.tail)) \in 1..6
    /\ AfterFraction(x.tail) = UtcSuffix

\* no format: an optional fraction, then nothing, white space or ' UTC'
MatchesGeneric(x) ==
    /\ (Len(x.tail) >= 1 /\ x.tail[1] = ".") =>
           Len(FractionDigits(x.tail)) >= 1
    /\ AfterFraction(x.tail) \in {<<>>, <<" ">>, UtcSuffix}

ParseText(x) ==
    IF x = NaNText THEN NaTInstant
    ELSE Instant(x.whole, FractionMs(FractionDigits(x.tail)))

\* iloc[0] of an empty column raises IndexError
SampleRaises(col) == Len(col) = 0

\* pd.to_datetime raises ValueError on a cell the chosen format does not
\* match
ReadRaises(col) ==
    \E i \in 1..Len(col) :
        /\ col[i] # NaNText
        /\ IF HasUTC(col[1]) THEN ~MatchesUtcFormat(col[i])
           ELSE ~MatchesGeneric(col[i])

\* pd.to_datetime of the column, with the format when the first cell holds
\* 'UTC' and without it otherwise; missing cells become NaT
ReadColumn(col) == [i \in 1..Len(col) |-> ParseText(col[i])]

\* the canonical text YYYY-MM-DD HH:MM:SS.mmm UTC
IsCanonicalText(x) ==
    /\ x # NaNText
    /\ Len(x.tail) = 8
    /\ x.tail[1] = "."
    /\ Len(FractionDigits(x.tail)) = 3
    /\ AfterFraction(x.tail) = UtcSuffix

---------------------------------------------------------------------------
(* State *)

VARIABLES
    \* merge_datasets applied to one input
    m_pc,              \* "ready", "done" (returned) or "raised" (IndexError)
    existing_data,     \* the frame read from existing_file
    new_data,          \* the frame read from new_file
    now,               \* pd.Timestamp.now(tz='UTC')
    final_data,        \* the frame written to output_file
    now2,              \* pd.Timestamp.now(tz='UTC') of a second merge
    again_data,        \* the frame a second merge of the same new_file writes
    \* the updater process
    pc,                \* position of the process in the script
    caller,            \* who called create_binance_client: "import" or "fetch"
    connAttempt,       \* attempt of create_binance_client
    attempt,           \* attempt of the loop in __main__
    runs,              \* calls of main() so far
    tf,                \* timeframe of the running loop in main(), 1..4
    fetchAttempt,      \* attempt of fetch_binance_data
    failedAttempts,    \* fetch attempts of this call that ended in the except block
    klinesRequests,    \* get_historical_klines calls of this fetch_binance_data call
    klines,            \* rows of the last response, -1 when there is none
    exc,               \* the exception being handled or propagated
    fetchOutcome,      \* "none", "returned" or "raised" for this fetch call
    wroteAttempt,      \* the attempt whose response was written, -1 none
    backoff,           \* seconds of the pause the except block has just made, 0 none
    newRows,           \* new_data folder: rows of each timeframe's file, -1 absent
    merged,            \* merged_data folder: timeframes whose merged file exists
    downloaded,        \* data folder holds the downloaded dataset
    upload_successful, \* the flag of the publish loop
    uploadFails,       \* failed uploads of this run (saturating)
    published,         \* an upload has succeeded in this process
    exitStatus,        \* -1 while running, else the exit status
    \* one timestamp column on its way through both writers and the reader
    t_pc,              \* "raw", "fetched", "read", "merged", "reread" or "raised"
    raw,               \* the open times of a klines response
    fetchFile,         \* the column fetch_binance_data writes
    fetchRead,         \* that column as merge_datasets parses it
    mergeFile,         \* the column merge_datasets writes
    mergeRead,         \* that column as the next merge_datasets parses it
    \* upload_to_kaggle and the proxy variables of the environment; a value
    \* is <<>> when absent (None when popped) and <<text>> when present
    u_pc,              \* "before", "uploading", "finally_ok", "finally_exc",
                       \* "returned" or "raised"
    env_http,          \* os.environ HTTP_PROXY
    env_https,         \* os.environ HTTPS_PROXY
    original_http_proxy,
    original_https_proxy,
    \* main() of fetch_full_eth_data.py
    f_pc,              \* "find_earliest", "loop", "completed", "exited"
    f_tf,              \* timeframe of the running loop, 1..4
    success_count,
    f_attempted,       \* the timeframes fetch_binance_data was called for
    f_result,          \* per timeframe: "none", "written", "empty", "raised"
    f_exit             \* -1 while running, else the exit status

mergeVars == <<m_pc, existing_data, new_data, now, final_data, now2,
              again_data>>

proxyVars == <<u_pc, env_http, env_https, original_http_proxy,
              original_https_proxy>>

fullVars == <<f_pc, f_tf, success_count, f_attempted, f_result, f_exit>>

timeVars == <<t_pc, raw, fetchFile, fetchRead, mergeFile, mergeRead>>

procVars == <<pc, caller, connAttempt, attempt, runs, tf, fetchAttempt,
              failedAttempts, klinesRequests, klines, exc, fetchOutcome,
              wroteAttempt, backoff, newRows, merged, downloaded, upload_successful,
              uploadFails, published, exitStatus>>

vars == <<m_pc, existing_data, new_data, now, final_data, now2, again_data,
          u_pc, env_http, env_https, original_http_proxy,
          original_https_proxy,
          f_pc, f_tf, success_count, f_attempted, f_result, f_exit,
          pc, caller, connAttempt, attempt, runs, tf, fetchAttempt,
          failedAttempts, klinesRequests, klines, exc, fetchOutcome,
          wroteAttempt, backoff, newRows, merged, downloaded,
          upload_successful, uploadFails, published, exitStatus,
          t_pc, raw, fetchFile, fetchRead, mergeFile, mergeRead>>

Timeframes == 1..NumTimeframes

NoExc == [kind |-> "none", tf |-> 0, fa |-> -1, ca |-> -1]

Exc(kind) == [kind |-> kind, tf |-> tf, fa |-> fetchAttempt, ca |-> connAttempt]

\* the process before the module is imported
ProcStart ==
    /\ pc = "connect"
    /\ caller = "import"
    /\ connAttempt = 0
    /\ attempt = 0
    /\ runs = 0
    /\ tf = 0
    /\ fetchAttempt = 0
    /\ failedAttempts = 0
    /\ klinesRequests = 0
    /\ klines = -1
    /\ exc = NoExc
    /\ fetchOutcome = "none"
    /\ newRows = [i \in Timeframes |-> -1]
    /\ wroteAttempt = -1
    /\ backoff = 0
    /\ merged = {}
    /\ downloaded = FALSE
    /\ upload_successful = FALSE
    /\ uploadFails = 0
    /\ published = FALSE
    /\ exitStatus = -1

\* no merge in progress
MergeIdle ==
    /\ m_pc = "idle"
    /\ existing_data = <<>>
    /\ new_data = <<>>
    /\ now = RetentionDays
    /\ final_data = <<>>
    /\ now2 = RetentionDays
    /\ again_data = <<>>

\* upload_to_kaggle is not called
ProxyIdle ==
    /\ u_pc = "idle"
    /\ env_http = <<>>
    /\ env_https = <<>>
    /\ original_http_proxy = <<>>
    /\ original_https_proxy = <<>>

\* fetch_full_eth_data.py is not run
FullIdle ==
    /\ f_pc = "idle"
    /\ f_tf = 0
    /\ success_count = 0
    /\ f_attempted = <<>>
    /\ f_result = [i \in Timeframes |-> "none"]
    /\ f_exit = -1

\* no column on its way
TimeIdle ==
    /\ t_pc = "idle"
    /\ raw = <<>>
    /\ fetchFile = <<>>
    /\ fetchRead = <<>>
    /\ mergeFile = <<>>
    /\ mergeRead = <<>>

---------------------------------------------------------------------------
(* SpecMerge: merge_datasets on every bounded input *)

InitMerge ==
    /\ m_pc = "ready"
    /\ \E ks \in ExistingKeySeqs : existing_data = Frame(ks, "existing")
    /\ \E ks \in IncomingKeySeqs : new_data = Frame(ks, "incoming")
    /\ now \in NowSet
    /\ final_data = <<>>
    /\ now2 = RetentionDays
    /\ again_data = <<>>
    /\ ProcStart
    /\ TimeIdle
    /\ ProxyIdle
    /\ FullIdle

\* merge_datasets raises at iloc[0]
MergeRaise ==
    /\ m_pc = "ready"
    /\ MergeRaises(existing_data, new_data)
    /\ m_pc' = "raised"
    /\ UNCHANGED <<existing_data, new_data, now, final_data, now2, again_data>>
    /\ UNCHANGED <<procVars, timeVars, proxyVars, fullVars>>

\* merge_datasets returns
MergeReturn ==
    /\ m_pc = "ready"
    /\ ~MergeRaises(existing_data, new_data)
    /\ final_data' = MergeDatasets(existing_data, new_data, now)
    /\ m_pc' = "done"
    /\ UNCHANGED <<existing_data, new_data, now, now2, again_data>>
    /\ UNCHANGED <<procVars, timeVars, proxyVars, fullVars>>

\* merge_datasets is applied again, at another time, to the file it wrote
\* (as existing_file) and to the same new_file
MergeAgain ==
    /\ m_pc = "done"
    /\ \E n \in NowSet :
          /\ now2' = n
          /\ IF MergeRaises(final_data, new_data)
             THEN m_pc' = "raised" /\ UNCHANGED again_data
             ELSE /\ m_pc' = "redone"
                  /\ again_data' = MergeDatasets(final_data, new_data, n)
    /\ UNCHANGED <<existing_data, new_data, now, final_data>>
    /\ UNCHANGED <<procVars, timeVars, proxyVars, fullVars>>

NextMerge == MergeRaise \/ MergeReturn \/ MergeAgain

SpecMerge == InitMerge /\ [][NextMerge]_vars

---------------------------------------------------------------------------
(* Spec: the updater process *)

\* `attempt < max_retries - 1` in the except blocks of both retry loops
AttemptsRemainOffByOne(a, max_retries) == a < max_retries

AttemptsRemain(a, max_retries) == a < max_retries - 1

\* `while attempt < max_attempts` in __main__
GlobalLoopContinuesInclusive(a) == a <= GlobalMaxAttempts

GlobalLoopContinues(a) == a < GlobalMaxAttempts

\* The frame code of fetch_binance_data (DataFrame, to_datetime, strftime,
\* to_csv) raises for no response, an empty one included.
WriteRaisesOnEmpty(n) == n = 0

WriteRaises(n) == FALSE

\* the dataset the hosting platform holds for a timeframe: never empty
HostedData == Frame(<<0>>, "existing")

\* seconds of the pause before the retry that follows attempt a
FetchBackoffLinear(a) == FetchBackoffSeconds * (a + 1)

FetchBackoff(a) == FetchBackoffSeconds

\* the open times of a response of n daily candles: midnight of days 1..n
KlinesOpenTimes(n) == [i \in 1..n |-> Instant(i, 0)]

\* the 'Open time' column of a timeframe's new_data file of n rows
NewFileColumn(n) == FetchWriteColumn(KlinesOpenTimes(n))

\* a parsed open time as a key of the merge, in days
KeyOf(t) == IF t = NaTInstant THEN NaT ELSE t.whole

\* the frame merge_datasets reads back from a timeframe's new_data file of
\* n rows
NewFileFrame(n) ==
    Frame([i \in 1..n |-> KeyOf(ReadColumn(NewFileColumn(n))[i])], "incoming")

\* the merged file of timeframe i, once merge_datasets has written it
MergedFile(i) == MergeDatasets(HostedData, NewFileFrame(newRows[i]), now)

EmptyFolder == [i \in Timeframes |-> -1]

procData == <<newRows, merged, downloaded>>

fetchLocals == <<fetchAttempt, failedAttempts, klinesRequests, klines,
                 fetchOutcome, wroteAttempt, backoff>>

uploadState == <<upload_successful, uploadFails, published>>

\* the locals of fetch_binance_data, before a call and after it
FetchLocalsReset ==
    /\ fetchAttempt' = 0
    /\ failedAttempts' = 0
    /\ klinesRequests' = 0
    /\ klines' = -1
    /\ fetchOutcome' = "none"
    /\ wroteAttempt' = -1
    /\ backoff' = 0

\* create_binance_client: Client(...) and client.ping() succeed
ConnectOk ==
    /\ pc = "connect"
    /\ pc' = IF caller = "import" THEN "loop_test" ELSE "klines"
    /\ UNCHANGED <<caller, connAttempt, attempt, runs, tf, exc, exitStatus>>
    /\ UNCHANGED <<fetchLocals, procData, uploadState, mergeVars, timeVars, proxyVars, fullVars>>

\* create_binance_client: Client(...) or client.ping() raises; retried after
\* a pause unless this was the last attempt, when the exception is raised to
\* the caller (at import nothing catches it and the process dies)
ConnectFail ==
    /\ pc = "connect"
    /\ exc' = Exc("ping")
    /\ IF AttemptsRemain(connAttempt, ClientMaxRetries)
       THEN pc' = "conn_sleep" /\ UNCHANGED exitStatus
       ELSE IF caller = "import"
            THEN pc' = "crashed" /\ exitStatus' = 1
            ELSE pc' = "fetch_except" /\ UNCHANGED exitStatus
    /\ UNCHANGED <<caller, connAttempt, attempt, runs, tf>>
    /\ UNCHANGED <<fetchLocals, procData, uploadState, mergeVars, timeVars, proxyVars, fullVars>>

\* time.sleep(10)
ConnSleep ==
    /\ pc = "conn_sleep"
    /\ pc' = "conn_tor"
    /\ UNCHANGED <<caller, connAttempt, attempt, runs, tf, exc, exitStatus>>
    /\ UNCHANGED <<fetchLocals, procData, uploadState, mergeVars, timeVars, proxyVars, fullVars>>

\* os.system('sudo service tor restart')
ConnTorRestart ==
    /\ pc = "conn_tor"
    /\ pc' = "conn_settle"
    /\ UNCHANGED <<caller, connAttempt, attempt, runs, tf, exc, exitStatus>>
    /\ UNCHANGED <<fetchLocals, procData, uploadState, mergeVars, timeVars, proxyVars, fullVars>>

\* time.sleep(5), then the next attempt of the loop
ConnSettle ==
    /\ pc = "conn_settle"
    /\ connAttempt' = connAttempt + 1
    /\ exc' = NoExc
    /\ pc' = "connect"
    /\ UNCHANGED <<caller, attempt, runs, tf, exitStatus>>
    /\ UNCHANGED <<fetchLocals, procData, uploadState, mergeVars, timeVars, proxyVars, fullVars>>

\* while attempt < max_attempts: main() is called, or the else branch exits
GlobalLoopTest ==
    /\ pc = "loop_test"
    /\ IF GlobalLoopContinues(attempt)
       THEN pc' = "main_clean" /\ runs' = runs + 1 /\ UNCHANGED exitStatus
       ELSE pc' = "exited" /\ exitStatus' = 1 /\ UNCHANGED runs
    /\ UNCHANGED <<caller, connAttempt, attempt, tf, exc>>
    /\ UNCHANGED <<fetchLocals, procData, uploadState, mergeVars, timeVars, proxyVars, fullVars>>

\* main(), step 1: the three folders are cleaned
MainClean ==
    /\ pc = "main_clean"
    /\ newRows' = EmptyFolder
    /\ merged' = {}
    /\ downloaded' = FALSE
    /\ pc' = "download"
    /\ UNCHANGED <<caller, connAttempt, attempt, runs, tf, exc, exitStatus>>
    /\ UNCHANGED <<fetchLocals, uploadState, mergeVars, timeVars, proxyVars, fullVars>>

\* clean_folder raises (os.listdir, os.remove) after k folders were cleaned,
\* at the start of main() or after the upload
CleanFail ==
    /\ pc \in {"main_clean", "final_clean"}
    /\ \E k \in 0..2 :
        /\ downloaded' = IF k >= 1 THEN FALSE ELSE downloaded
        /\ newRows' = IF k >= 2 THEN EmptyFolder ELSE newRows
    /\ exc' = Exc("clean")
    /\ pc' = "global_except"
    /\ UNCHANGED <<caller, connAttempt, attempt, runs, tf, merged, exitStatus>>
    /\ UNCHANGED <<fetchLocals, uploadState, mergeVars, timeVars, proxyVars, fullVars>>

\* main(), step 2: download_kaggle_dataset returns
DownloadOk ==
    /\ pc = "download"
    /\ downloaded' = TRUE
    /\ tf' = 1
    /\ pc' = "fetch_call"
    /\ UNCHANGED <<caller, connAttempt, attempt, runs, exc, exitStatus>>
    /\ UNCHANGED <<newRows, merged>>
    /\ UNCHANGED <<fetchLocals, uploadState, mergeVars, timeVars, proxyVars, fullVars>>

\* download_kaggle_dataset raises: main() has no handler
DownloadFail ==
    /\ pc = "download"
    /\ exc' = Exc("download")
    /\ pc' = "global_except"
    /\ UNCHANGED <<caller, connAttempt, attempt, runs, tf, exitStatus>>
    /\ UNCHANGED <<fetchLocals, procData, uploadState, mergeVars, timeVars, proxyVars, fullVars>>

\* main(), step 3: fetch_binance_data is called for timeframe tf
FetchCall ==
    /\ pc = "fetch_call"
    /\ FetchLocalsReset
    /\ pc' = "fetch_try"
    /\ UNCHANGED <<caller, connAttempt, attempt, runs, tf, exc, exitStatus>>
    /\ UNCHANGED <<procData, uploadState, mergeVars, timeVars, proxyVars, fullVars>>

\* the try block of a fetch attempt starts: create_binance_client()
FetchTry ==
    /\ pc = "fetch_try"
    /\ caller' = "fetch"
    /\ connAttempt' = 0
    /\ pc' = "connect"
    /\ UNCHANGED <<attempt, runs, tf, exc, exitStatus>>
    /\ UNCHANGED <<fetchLocals, procData, uploadState, mergeVars, timeVars, proxyVars, fullVars>>

\* client.get_historical_klines returns n rows
KlinesOk ==
    /\ pc = "klines"
    /\ klinesRequests' = klinesRequests + 1
    /\ \E n \in 0..MaxKlines : klines' = n
    /\ pc' = "fetch_write"
    /\ UNCHANGED <<caller, connAttempt, attempt, runs, tf, exc, exitStatus>>
    /\ UNCHANGED <<fetchAttempt, failedAttempts, fetchOutcome, wroteAttempt, backoff>>
    /\ UNCHANGED <<procData, uploadState, mergeVars, timeVars, proxyVars, fullVars>>

\* client.get_historical_klines raises
KlinesFail ==
    /\ pc = "klines"
    /\ klinesRequests' = klinesRequests + 1
    /\ klines' = -1
    /\ exc' = Exc("klines")
    /\ pc' = "fetch_except"
    /\ UNCHANGED <<caller, connAttempt, attempt, runs, tf, exitStatus>>
    /\ UNCHANGED <<fetchAttempt, failedAttempts, fetchOutcome, wroteAttempt, backoff>>
    /\ UNCHANGED <<procData, uploadState, mergeVars, timeVars, proxyVars, fullVars>>

\* `return` after to_csv: control leaves fetch_binance_data
AfterWriteNoReturn == "fetch_settle"

AfterWrite == "fetch_return"

\* the response is framed and written to output_file; the function returns
FetchWrite ==
    /\ pc = "fetch_write"
    /\ IF WriteRaises(klines)
       THEN /\ exc' = Exc("frame")
            /\ pc' = "fetch_except"
            /\ UNCHANGED <<newRows, wroteAttempt, fetchOutcome>>
       ELSE /\ newRows' = [newRows EXCEPT ![tf] = klines]
            /\ wroteAttempt' = fetchAttempt
            /\ fetchOutcome' = "returned"
            /\ pc' = AfterWrite
            /\ UNCHANGED exc
    /\ UNCHANGED <<caller, connAttempt, attempt, runs, tf, exitStatus>>
    /\ UNCHANGED <<fetchAttempt, failedAttempts, klinesRequests, klines, backoff>>
    /\ UNCHANGED <<merged, downloaded, uploadState, mergeVars, timeVars, proxyVars, fullVars>>

\* the except block of fetch_binance_data: pause and retry, or re-raise the
\* exception of this attempt, which leaves main() too
FetchExcept ==
    /\ pc = "fetch_except"
    /\ failedAttempts' = failedAttempts + 1
    /\ IF AttemptsRemain(fetchAttempt, FetchMaxRetries)
       THEN pc' = "fetch_sleep" /\ UNCHANGED fetchOutcome
       ELSE pc' = "global_except" /\ fetchOutcome' = "raised"
    /\ UNCHANGED <<caller, connAttempt, attempt, runs, tf, exc, exitStatus>>
    /\ UNCHANGED <<fetchAttempt, klinesRequests, klines, wroteAttempt, backoff>>
    /\ UNCHANGED <<procData, uploadState, mergeVars, timeVars, proxyVars, fullVars>>

\* time.sleep(20)
FetchSleep ==
    /\ pc = "fetch_sleep"
    /\ backoff' = FetchBackoff(fetchAttempt)
    /\ pc' = "fetch_tor"
    /\ UNCHANGED <<caller, connAttempt, attempt, runs, tf, exc, exitStatus>>
    /\ UNCHANGED <<fetchAttempt, failedAttempts, klinesRequests, klines>>
    /\ UNCHANGED <<fetchOutcome, wroteAttempt>>
    /\ UNCHANGED <<procData, uploadState, mergeVars, timeVars, proxyVars, fullVars>>

\* os.system('sudo service tor restart')
FetchTorRestart ==
    /\ pc = "fetch_tor"
    /\ pc' = "fetch_settle"
    /\ UNCHANGED <<caller, connAttempt, attempt, runs, tf, exc, exitStatus>>
    /\ UNCHANGED <<fetchLocals, procData, uploadState, mergeVars, timeVars, proxyVars, fullVars>>

\* time.sleep(5), then the next attempt of the loop
FetchSettle ==
    /\ pc = "fetch_settle"
    /\ fetchAttempt' = fetchAttempt + 1
    /\ exc' = NoExc
    /\ backoff' = 0
    /\ pc' = "fetch_try"
    /\ UNCHANGED <<caller, connAttempt, attempt, runs, tf, exitStatus>>
    /\ UNCHANGED <<failedAttempts, klinesRequests, klines, fetchOutcome, wroteAttempt>>
    /\ UNCHANGED <<procData, uploadState, mergeVars, timeVars, proxyVars, fullVars>>

\* fetch_binance_data has returned and its locals are gone: the next
\* timeframe, or on to the merges
FetchReturn ==
    /\ pc = "fetch_return"
    /\ IF tf < NumTimeframes
       THEN tf' = tf + 1 /\ pc' = "fetch_call"
       ELSE tf' = 1 /\ pc' = "merge"
    /\ FetchLocalsReset
    /\ connAttempt' = 0
    /\ UNCHANGED <<caller, attempt, runs, exc, exitStatus>>
    /\ UNCHANGED <<procData, uploadState, mergeVars, timeVars, proxyVars, fullVars>>

\* main(), step 4: merge_datasets for timeframe tf; its exception leaves main()
MergeStep ==
    /\ pc = "merge"
    /\ IF \/ MergeRaises(HostedData, NewFileFrame(newRows[tf]))
          \/ ReadRaises(NewFileColumn(newRows[tf]))
       THEN /\ exc' = Exc("merge")
            /\ pc' = "global_except"
            /\ UNCHANGED <<tf, merged>>
       ELSE /\ merged' = merged \cup {tf}
            /\ IF tf < NumTimeframes
               THEN tf' = tf + 1 /\ pc' = "merge"
               ELSE tf' = tf /\ pc' = "copy_metadata"
            /\ UNCHANGED exc
    /\ UNCHANGED <<caller, connAttempt, attempt, runs, exitStatus>>
    /\ UNCHANGED <<newRows, downloaded>>
    /\ UNCHANGED <<fetchLocals, uploadState, mergeVars, timeVars, proxyVars, fullVars>>

\* copy_metadata, then the publish loop is entered
CopyMetadata ==
    /\ pc = "copy_metadata"
    /\ upload_successful' = FALSE
    /\ uploadFails' = 0
    /\ pc' = "upload"
    /\ UNCHANGED <<caller, connAttempt, attempt, runs, tf, exc, exitStatus>>
    /\ UNCHANGED <<published, fetchLocals, procData, mergeVars, timeVars, proxyVars, fullVars>>

\* upload_to_kaggle returns
UploadOk ==
    /\ pc = "upload"
    /\ upload_successful' = TRUE
    /\ published' = TRUE
    /\ pc' = "final_clean"
    /\ UNCHANGED <<caller, connAttempt, attempt, runs, tf, exc, exitStatus>>
    /\ UNCHANGED <<uploadFails, fetchLocals, procData, mergeVars, timeVars, proxyVars, fullVars>>

\* where an exception of upload_to_kaggle goes: the handler in the loop
UploadHandlerPropagates == "global_except"

UploadHandlerFallsThrough == "final_clean"

UploadHandler == "upload_sleep"

\* upload_to_kaggle raises: caught in the loop of main()
UploadFail ==
    /\ pc = "upload"
    /\ exc' = Exc("upload")
    /\ uploadFails' = IF uploadFails < MaxUploadFails THEN uploadFails + 1
                      ELSE uploadFails
    /\ pc' = UploadHandler
    /\ UNCHANGED <<caller, connAttempt, attempt, runs, tf, exitStatus>>
    /\ UNCHANGED <<upload_successful, published, fetchLocals, procData, mergeVars, timeVars, proxyVars, fullVars>>

\* time.sleep(60), then the loop tests upload_successful again
UploadSleep ==
    /\ pc = "upload_sleep"
    /\ exc' = NoExc
    /\ pc' = "upload"
    /\ UNCHANGED <<caller, connAttempt, attempt, runs, tf, exitStatus>>
    /\ UNCHANGED <<fetchLocals, procData, uploadState, mergeVars, timeVars, proxyVars, fullVars>>

\* main(), step 6: the three folders are cleaned and main() returns
FinalClean ==
    /\ pc = "final_clean"
    /\ newRows' = EmptyFolder
    /\ merged' = {}
    /\ downloaded' = FALSE
    /\ tf' = 0
    /\ pc' = "main_returned"
    /\ UNCHANGED <<caller, connAttempt, attempt, runs, exc, exitStatus>>
    /\ UNCHANGED <<fetchLocals, uploadState, mergeVars, timeVars, proxyVars, fullVars>>

\* break: the loop ends and the script ends with status 0
GlobalBreak ==
    /\ pc = "main_returned"
    /\ pc' = "exited"
    /\ exitStatus' = 0
    /\ UNCHANGED <<caller, connAttempt, attempt, runs, tf, exc>>
    /\ UNCHANGED <<fetchLocals, procData, uploadState, mergeVars, timeVars, proxyVars, fullVars>>

\* except Exception in __main__: attempt += 1
GlobalExcept ==
    /\ pc = "global_except"
    /\ attempt' = attempt + 1
    /\ pc' = "global_sleep"
    /\ UNCHANGED <<caller, connAttempt, runs, tf, exc, exitStatus>>
    /\ UNCHANGED <<fetchLocals, procData, uploadState, mergeVars, timeVars, proxyVars, fullVars>>

\* time.sleep(60) ends the except block: the exception and the frames of
\* main() it held are gone; the loop tests attempt again
GlobalSleep ==
    /\ pc = "global_sleep"
    /\ exc' = NoExc
    /\ tf' = 0
    /\ connAttempt' = 0
    /\ FetchLocalsReset
    /\ upload_successful' = FALSE
    /\ uploadFails' = 0
    /\ pc' = "loop_test"
    /\ UNCHANGED <<caller, attempt, runs, published, exitStatus>>
    /\ UNCHANGED <<procData, mergeVars, timeVars, proxyVars, fullVars>>

Init == ProcStart /\ MergeIdle /\ TimeIdle /\ ProxyIdle /\ FullIdle

Next ==
    \/ ConnectOk \/ ConnectFail \/ ConnSleep \/ ConnTorRestart \/ ConnSettle
    \/ GlobalLoopTest \/ MainClean \/ CleanFail \/ DownloadOk \/ DownloadFail
    \/ FetchCall \/ FetchTry \/ KlinesOk \/ KlinesFail \/ FetchWrite
    \/ FetchExcept \/ FetchSleep \/ FetchTorRestart \/ FetchSettle
    \/ FetchReturn \/ MergeStep \/ CopyMetadata
    \/ UploadOk \/ UploadFail \/ UploadSleep \/ FinalClean
    \/ GlobalBreak \/ GlobalExcept \/ GlobalSleep

Spec == Init /\ [][Next]_vars

\* Spec with what the termination of the process rests on: every call
\* returns or raises, so a step that can be taken is taken, and an upload
\* that is tried again and again succeeds at last
SpecLive == Spec /\ WF_vars(Next) /\ SF_vars(UploadOk)

---------------------------------------------------------------------------
(* SpecTime: one timestamp column, from the klines response through the    *)
(* writer of fetch_binance_data, the reader of merge_datasets, the writer  *)
(* of merge_datasets, and the reader of the next run's merge_datasets      *)

\* milliseconds of the instants tried
MsSet == {0, 7, 450}

Instants == {Instant(w, f) : w \in 0..MaxWhole, f \in MsSet}

InstantLt(a, b) == a.whole < b.whole \/ (a.whole = b.whole /\ a.ms < b.ms)

\* the open times of a klines response ascend
RawColumns ==
    {c \in SeqsUpTo(Instants, MaxRows) :
        \A i \in 1..(Len(c) - 1) : InstantLt(c[i], c[i + 1])}

InitTime ==
    /\ t_pc = "raw"
    /\ raw \in RawColumns
    /\ fetchFile = <<>>
    /\ fetchRead = <<>>
    /\ mergeFile = <<>>
    /\ mergeRead = <<>>
    /\ ProcStart
    /\ MergeIdle
    /\ ProxyIdle
    /\ FullIdle

\* fetch_binance_data converts the column and writes it
TimeFetchWrite ==
    /\ t_pc = "raw"
    /\ fetchFile' = FetchWriteColumn(raw)
    /\ t_pc' = "fetched"
    /\ UNCHANGED <<raw, fetchRead, mergeFile, mergeRead>>
    /\ UNCHANGED <<procVars, mergeVars, proxyVars, fullVars>>

\* merge_datasets reads the fetched file
TimeMergeRead ==
    /\ t_pc = "fetched"
    /\ IF SampleRaises(fetchFile) \/ ReadRaises(fetchFile)
       THEN t_pc' = "raised" /\ UNCHANGED fetchRead
       ELSE t_pc' = "read" /\ fetchRead' = ReadColumn(fetchFile)
    /\ UNCHANGED <<raw, fetchFile, mergeFile, mergeRead>>
    /\ UNCHANGED <<procVars, mergeVars, proxyVars, fullVars>>

\* merge_datasets converts the column back and writes it
TimeMergeWrite ==
    /\ t_pc = "read"
    /\ mergeFile' = MergeWriteColumn(fetchRead)
    /\ t_pc' = "merged"
    /\ UNCHANGED <<raw, fetchFile, fetchRead, mergeRead>>
    /\ UNCHANGED <<procVars, mergeVars, proxyVars, fullVars>>

\* merge_datasets of the next run reads the merged file as existing data
TimeMergeReread ==
    /\ t_pc = "merged"
    /\ IF SampleRaises(mergeFile) \/ ReadRaises(mergeFile)
       THEN t_pc' = "raised" /\ UNCHANGED mergeRead
       ELSE t_pc' = "reread" /\ mergeRead' = ReadColumn(mergeFile)
    /\ UNCHANGED <<raw, fetchFile, fetchRead, mergeFile>>
    /\ UNCHANGED <<procVars, mergeVars, proxyVars, fullVars>>

NextTime == TimeFetchWrite \/ TimeMergeRead \/ TimeMergeWrite \/ TimeMergeReread

SpecTime == InitTime /\ [][NextTime]_vars

---------------------------------------------------------------------------
(* SpecProxy: upload_to_kaggle and the proxy variables of the environment, *)
(* called as the publish loop of main() calls it: again after it raised    *)

\* the texts a proxy variable is tried with; "" is the empty string
ProxyTexts == {"", "socks5://127.0.0.1:9050", "http://127.0.0.1:8118",
               "http://proxy:3128"}

\* a proxy variable: absent, or present with a text
ProxyValues == {<<>>} \cup {<<x>> : x \in ProxyTexts}

\* `if original:` of a popped value: None and '' are false
Truthy(v) == v # <<>> /\ v[1] # ""

\* the finally block: a variable is set again when its popped value is true
Restored(env, original) == IF Truthy(original) THEN original ELSE env

InitProxy ==
    /\ u_pc = "before"
    /\ env_http \in ProxyValues
    /\ env_https \in ProxyValues
    /\ original_http_proxy = <<>>
    /\ original_https_proxy = <<>>
    /\ ProcStart
    /\ MergeIdle
    /\ TimeIdle
    /\ FullIdle

\* upload_to_kaggle is called, the first time or after it raised: both
\* variables are popped from os.environ
UploadEnter ==
    /\ u_pc \in {"before", "raised"}
    /\ original_http_proxy' = env_http
    /\ original_https_proxy' = env_https
    /\ env_http' = <<>>
    /\ env_https' = <<>>
    /\ u_pc' = "uploading"
    /\ UNCHANGED <<procVars, mergeVars, timeVars, fullVars>>

\* authenticate() and dataset_create_version() return
UploadCallOk ==
    /\ u_pc = "uploading"
    /\ u_pc' = "finally_ok"
    /\ UNCHANGED <<env_http, env_https, original_http_proxy, original_https_proxy>>
    /\ UNCHANGED <<procVars, mergeVars, timeVars, fullVars>>

\* authenticate() or dataset_create_version() raises
UploadCallRaise ==
    /\ u_pc = "uploading"
    /\ u_pc' = "finally_exc"
    /\ UNCHANGED <<env_http, env_https, original_http_proxy, original_https_proxy>>
    /\ UNCHANGED <<procVars, mergeVars, timeVars, fullVars>>

\* the finally block, then the function returns or the exception goes on
UploadFinally ==
    /\ u_pc \in {"finally_ok", "finally_exc"}
    /\ env_http' = Restored(env_http, original_http_proxy)
    /\ env_https' = Restored(env_https, original_https_proxy)
    /\ u_pc' = IF u_pc = "finally_ok" THEN "returned" ELSE "raised"
    /\ UNCHANGED <<original_http_proxy, original_https_proxy>>
    /\ UNCHANGED <<procVars, mergeVars, timeVars, fullVars>>

NextProxy == UploadEnter \/ UploadCallOk \/ UploadCallRaise \/ UploadFinally

SpecProxy == InitProxy /\ [][NextProxy]_vars

---------------------------------------------------------------------------
(* SpecFull: main() of fetch_full_eth_data.py, run as a script *)

\* rows of a klines response in the full-history fetcher
FullKlines == 0..MaxKlines

\* `if not klines: return False`, else the frame is written and True returned
ReturnsTrueAlways(n) == TRUE

ReturnsTrue(n) == n > 0

InitFull ==
    /\ f_pc = "find_earliest"
    /\ f_tf = 0
    /\ success_count = 0
    /\ f_attempted = <<>>
    /\ f_result = [i \in Timeframes |-> "none"]
    /\ f_exit = -1
    /\ ProcStart
    /\ MergeIdle
    /\ TimeIdle
    /\ ProxyIdle

\* find_earliest_data returns a start date: one of the tested dates or the
\* fallback; success_count = 0 and the loop starts
FullFindEarliest ==
    /\ f_pc = "find_earliest"
    /\ f_tf' = 1
    /\ success_count' = 0
    /\ f_pc' = "loop"
    /\ UNCHANGED <<f_attempted, f_result, f_exit>>
    /\ UNCHANGED <<procVars, mergeVars, timeVars, proxyVars>>

\* create_binance_client raises in find_earliest_data, outside its try: the
\* exception leaves main() and the script exits with status 1
FullFindEarliestRaise ==
    /\ f_pc = "find_earliest"
    /\ f_pc' = "exited"
    /\ f_exit' = 1
    /\ UNCHANGED <<f_tf, success_count, f_attempted, f_result>>
    /\ UNCHANGED <<procVars, mergeVars, timeVars, proxyVars>>

\* the step of the loop to the next timeframe, or out of the loop
FullAdvance ==
    /\ f_tf' = f_tf + 1
    /\ f_pc' = IF f_tf < NumTimeframes THEN "loop" ELSE "completed"

\* one pass of the loop: fetch_binance_data gets n rows and returns; on
\* True success_count += 1 and time.sleep(1)
FullFetchReturn ==
    /\ f_pc = "loop"
    /\ \E n \in FullKlines :
          /\ f_result' = [f_result EXCEPT
                            ![f_tf] = IF n > 0 THEN "written" ELSE "empty"]
          /\ success_count' = IF ReturnsTrue(n) THEN success_count + 1
                              ELSE success_count
    /\ f_attempted' = Append(f_attempted, f_tf)
    /\ FullAdvance
    /\ UNCHANGED f_exit
    /\ UNCHANGED <<procVars, mergeVars, timeVars, proxyVars>>

\* one pass of the loop: fetch_binance_data raises (client, request, frame
\* or file); the except block prints and continues
FullFetchRaise ==
    /\ f_pc = "loop"
    /\ f_result' = [f_result EXCEPT ![f_tf] = "raised"]
    /\ f_attempted' = Append(f_attempted, f_tf)
    /\ FullAdvance
    /\ UNCHANGED <<success_count, f_exit>>
    /\ UNCHANGED <<procVars, mergeVars, timeVars, proxyVars>>

\* main() prints the count and returns; the script ends with status 0
FullReturn ==
    /\ f_pc = "completed"
    /\ f_pc' = "exited"
    /\ f_exit' = 0
    /\ UNCHANGED <<f_tf, success_count, f_attempted, f_result>>
    /\ UNCHANGED <<procVars, mergeVars, timeVars, proxyVars>>

NextFull ==
    \/ FullFindEarliest \/ FullFindEarliestRaise
    \/ FullFetchReturn \/ FullFetchRaise \/ FullReturn

SpecFull == InitFull /\ [][NextFull]_vars

---------------------------------------------------------------------------
(* Properties of merge_datasets, under SpecMerge *)

\* the plan of the merge that ran
MergeFilterDate == FilterDate(new_data, now)

MergeOld == ExistingOld(existing_data, MergeFilterDate)

MergeRecent == ExistingRecent(existing_data, MergeFilterDate)

RowsOf(df) == {df[i] : i \in 1..Len(df)}

KeysOf(df) == {df[i].t : i \in 1..Len(df)}

RowsWithKey(df, k) == {i \in 1..Len(df) : df[i].t = k}

\* C1: the merged dataset is strictly ascending by open_time (adjacent rows
\* satisfy open_time[i] < open_time[i+1]), so no two rows share an open_time,
\* for every sorted, unique existing and every non-empty incoming.
C1_StrictlyAscending ==
    m_pc = "done" =>
        \A i \in 1..(Len(final_data) - 1) :
            TsLt(final_data[i].t, final_data[i + 1].t)

\* an incoming with a repeated key and a key of existing, merged
C1_Witness ==
    /\ m_pc = "done"
    /\ \E i, j \in 1..Len(new_data) : i < j /\ new_data[i].t = new_data[j].t
    /\ KeysOf(new_data) \cap KeysOf(existing_data) # {}
    /\ Len(final_data) >= 2

\* C2: first-wins deduplication: a key of both the recent segment and
\* incoming has exactly one row in the result, and it is the existing row.
C2_FirstWins ==
    m_pc = "done" =>
        \A k \in KeysOf(MergeRecent) \cap KeysOf(new_data) :
            /\ Cardinality(RowsWithKey(final_data, k)) = 1
            /\ \A i \in RowsWithKey(final_data, k) :
                   final_data[i] \in RowsOf(existing_data)

\* a key of both the recent segment and incoming, merged
C2_Witness ==
    /\ m_pc = "done"
    /\ KeysOf(MergeRecent) \cap KeysOf(new_data) # {}
    /\ KeysOf(new_data) \ KeysOf(existing_data) # {}

\* C3 (as claimed): with incoming empty, merge_datasets completes and its
\* result is existing, in order and content.
C3_EmptyIncomingIsIdentity ==
    (m_pc # "ready" /\ Len(new_data) = 0) =>
        (m_pc = "done" /\ final_data = existing_data)

\* C4 (as claimed): with existing empty, merge_datasets completes and its
\* result is incoming sorted by open_time with the first row of each key kept.
C4_EmptyExistingIsSortedIncoming ==
    (m_pc # "ready" /\ Len(existing_data) = 0 /\ Len(new_data) > 0) =>
        (m_pc = "done" /\ final_data = SortValues(DropDuplicates(new_data)))

\* C5: cutoff correctness: the existing rows with open_time < cutoff are the
\* old segment; none of them, and none of their keys, is in the frame that
\* is deduplicated; the rows of the result below the cutoff are exactly the
\* old segment, unchanged and in order, so their number is the same.
C5_OldSegmentUntouched ==
    m_pc = "done" =>
        /\ \A r \in RowsOf(existing_data) :
               TsLt(r.t, MergeFilterDate) => r \in RowsOf(MergeOld)
        /\ RowsOf(MergeOld) \cap RowsOf(MergeRecent \o new_data) = {}
        /\ KeysOf(MergeOld) \cap KeysOf(MergeRecent \o new_data) = {}
        /\ SelectSeq(final_data, LAMBDA r : TsLt(r.t, MergeFilterDate)) = MergeOld
        /\ SelectSeq(final_data, LAMBDA r : r \in RowsOf(MergeOld)) = MergeOld

\* a merge with a non-empty old segment and an incoming row below now - 30 days
C5_Witness ==
    /\ m_pc = "done"
    /\ Len(MergeOld) >= 1
    /\ Len(MergeRecent) >= 1
    /\ \E i \in 1..Len(new_data) : new_data[i].t < CutoffDate(now)

\* C17: the merge cutoff is the earlier of now - 30 days and the smallest
\* incoming open_time, so no incoming row lies below it: no incoming row
\* shares its open_time with a row of the old segment, every existing row
\* whose open_time an incoming row has is in the recent segment, and the
\* result holds that open_time once, also when incoming is older than the
\* retention window.
C17_CutoffCoversIncoming ==
    m_pc = "done" =>
        /\ MergeFilterDate <= CutoffDate(now)
        /\ \A k \in KeysOf(new_data) : MergeFilterDate <= k
        /\ MergeFilterDate \in {CutoffDate(now)} \cup KeysOf(new_data)
        /\ KeysOf(new_data) \cap KeysOf(MergeOld) = {}
        /\ \A r \in RowsOf(existing_data) :
               r.t \in KeysOf(new_data) => r \in RowsOf(MergeRecent)
        /\ \A k \in KeysOf(new_data) :
               Cardinality(RowsWithKey(final_data, k)) = 1

\* a merge whose incoming rows are older than the retention window and
\* share an open_time with an existing row
C17_Witness ==
    /\ m_pc = "done"
    /\ \A k \in KeysOf(new_data) : k < CutoffDate(now)
    /\ KeysOf(new_data) \cap KeysOf(existing_data) # {}

\* C23: merge_datasets loses no key: every existing row is in exactly one
\* of the old and the recent segment, and the open_time values of the result
\* are those of existing together with those of incoming.
C23_NoKeyLost ==
    m_pc = "done" =>
        /\ \A r \in RowsOf(existing_data) :
               (r \in RowsOf(MergeOld)) # (r \in RowsOf(MergeRecent))
        /\ KeysOf(final_data) = KeysOf(existing_data) \cup KeysOf(new_data)

\* a merge with an old segment, an existing row at the cutoff itself, and an
\* incoming key that existing has not
C23_Witness ==
    /\ m_pc = "done"
    /\ Len(MergeOld) >= 1
    /\ MergeFilterDate \in KeysOf(existing_data) \ KeysOf(new_data)
    /\ KeysOf(new_data) \ KeysOf(existing_data) # {}

\* C25: merging the same incoming again into the result of a merge, at
\* whatever time, gives that result again: the same rows in the same order.
C25_RemergeIdempotent ==
    m_pc = "redone" => again_data = final_data

\* a second merge made at another time than the first, of an incoming that
\* has a key twice and a key of existing
C25_Witness ==
    /\ m_pc = "redone"
    /\ now2 # now
    /\ Cardinality(KeysOf(new_data)) < Len(new_data)
    /\ KeysOf(new_data) \cap KeysOf(existing_data) # {}
    /\ Len(MergeOld) >= 1

---------------------------------------------------------------------------
(* Properties of the process, under Spec *)

FetchErrorKinds == {"ping", "klines", "frame"}

\* C6: a call of fetch_binance_data issues at most max_retries
\* historical-series requests; it raises only after exactly max_retries
\* failed attempts, the exception raised is the one of the last attempt, and
\* it arrives in the except block of the loop in __main__.
C6_FetchExhaustion ==
    /\ klinesRequests <= FetchMaxRetries
    /\ failedAttempts <= FetchMaxRetries
    /\ fetchOutcome = "raised" =>
           /\ failedAttempts = FetchMaxRetries
           /\ exc.kind \in FetchErrorKinds
           /\ exc.fa = FetchMaxRetries - 1
           /\ exc.tf = tf
           /\ pc \in {"global_except", "global_sleep"}
    /\ (pc = "global_except" /\ exc.kind \in FetchErrorKinds) =>
           fetchOutcome = "raised"

\* three requests failed and the third one's exception reached __main__
C6_Witness ==
    /\ pc = "global_except"
    /\ fetchOutcome = "raised"
    /\ klinesRequests = FetchMaxRetries
    /\ exc.kind = "klines"

\* C7: when an attempt succeeds after i - 1 failed ones, fetch_binance_data
\* has written the response of that attempt, raises nothing, and the next
\* step leaves the function: no further attempt, request or pause.
C7_SuccessEndsFetch ==
    /\ [](fetchOutcome = "returned" =>
            /\ pc = "fetch_return"
            /\ wroteAttempt = fetchAttempt
            /\ failedAttempts = fetchAttempt
            /\ fetchAttempt < FetchMaxRetries
            /\ newRows[tf] = klines
            /\ klinesRequests <= fetchAttempt + 1)
    /\ [][pc = "fetch_return" =>
            /\ pc' \in {"fetch_call", "merge"}
            /\ attempt' = attempt
            /\ newRows' = newRows]_vars

\* two failed attempts, then the third returns rows
C7_Witness ==
    /\ pc = "fetch_return"
    /\ fetchOutcome = "returned"
    /\ failedAttempts = 2
    /\ fetchAttempt = 2
    /\ klines > 0

\* C8: an empty response is no failure: the attempt that received it writes
\* the (empty) file and returns, with no failed attempt counted, no pause
\* and no exception, and the outcome differs from the one of a failed fetch.
C8_EmptyResponseReturns ==
    /\ [][(pc = "fetch_write" /\ klines = 0) =>
            /\ pc' = "fetch_return"
            /\ fetchOutcome' = "returned"
            /\ newRows'[tf] = 0
            /\ failedAttempts' = failedAttempts
            /\ fetchAttempt' = fetchAttempt
            /\ exc' = exc]_vars
    /\ []((pc = "fetch_return" /\ klines = 0) => fetchOutcome # "raised")

\* the first attempt received an empty series and the call returned
C8_Witness ==
    /\ pc = "fetch_return"
    /\ klines = 0
    /\ newRows[tf] = 0
    /\ failedAttempts = 0

\* C9: a failed upload is handled in main(): it is followed by the pause and
\* another upload, whatever the number of failures so far, and changes
\* neither the global attempt counter nor the run; main() is past the
\* publish loop only with upload_successful set.
C9_PublishRetriedInMain ==
    /\ [][(pc = "upload" /\ ~upload_successful') =>
            /\ pc' = "upload_sleep"
            /\ attempt' = attempt
            /\ runs' = runs
            /\ exitStatus' = exitStatus]_vars
    /\ [][pc = "upload_sleep" =>
            /\ pc' = "upload"
            /\ attempt' = attempt]_vars
    /\ [](pc \in {"final_clean", "main_returned"} => upload_successful)
    /\ [](uploadFails > 0 => pc \in {"upload", "upload_sleep", "final_clean",
                                       "main_returned", "global_except",
                                       "global_sleep", "exited"})

\* the upload is tried again after MaxUploadFails failures, in the first run
C9_Witness ==
    /\ pc = "upload"
    /\ uploadFails = MaxUploadFails
    /\ attempt = 0

\* positions of the process inside a call of main()
InMain ==
    pc \notin {"loop_test", "global_sleep", "exited", "crashed"}
    /\ ~(pc \in {"connect", "conn_sleep", "conn_tor", "conn_settle"}
         /\ caller = "import")

\* C10: main() is called at most max_attempts (10) times; attempt counts the
\* failed runs, one per failed run; a run that returns ends the loop with
\* status 0 and no further run; with attempt at the budget the process ends
\* with status 1.
C10_GlobalRetryBound ==
    /\ [](runs <= GlobalMaxAttempts /\ attempt <= GlobalMaxAttempts)
    /\ [](runs = attempt + (IF InMain \/ exitStatus = 0 THEN 1 ELSE 0))
    /\ [][attempt' # attempt =>
            (pc = "global_except" /\ attempt' = attempt + 1)]_vars
    /\ [][pc = "main_returned" =>
            (pc' = "exited" /\ exitStatus' = 0 /\ runs' = runs)]_vars
    /\ []((pc = "exited" /\ exitStatus = 1) => attempt = GlobalMaxAttempts)
    /\ [][(pc = "loop_test" /\ attempt = GlobalMaxAttempts) =>
            (pc' = "exited" /\ exitStatus' = 1 /\ runs' = runs)]_vars

\* the tenth run failed and the process ended with status 1
C10_Witness ==
    /\ pc = "exited"
    /\ exitStatus = 1
    /\ runs = GlobalMaxAttempts
    /\ attempt = GlobalMaxAttempts

\* C11 (as claimed): when the process ends with status 1 because the global
\* attempt budget is exhausted, no upload has succeeded in any run.
C11_NothingPublishedOnFailure ==
    (pc = "exited" /\ exitStatus = 1) => ~published

\* the step taken from here is made of clean_folder calls
AtCleanFolder == pc \in {"main_clean", "final_clean"}

\* what the run has staged in the three folders is still there after the step
StagedKept ==
    /\ downloaded => downloaded'
    /\ \A i \in Timeframes : newRows[i] # -1 => newRows'[i] = newRows[i]
    /\ merged \subseteq merged'

---------------------------------------------------------------------------
(* Properties of the staged data and of the retry steps, under Spec *)

\* a dataset whose open times are all present and strictly ascending
ValidDataset(df) ==
    /\ \A i \in 1..Len(df) : df[i].t # NaT
    /\ \A i \in 1..(Len(df) - 1) : TsLt(df[i].t, df[i + 1].t)

\* C13: whenever upload_to_kaggle is about to be called, every merged file
\* that is staged has unique, strictly ascending open times; a merged file
\* that has not makes the run fail before the upload.
C13_OnlyValidDataPublished ==
    pc = "upload" => \A i \in merged : ValidDataset(MergedFile(i))

\* C14: upload_to_kaggle is called, and its retry waits, only while this
\* run has staged all four fetched files and merged every one of them
\* without error; a run starts its download with nothing staged, and a run
\* that a fetch or merge error ends has made no upload attempt.
C14_PublishAfterAllMerged ==
    /\ pc \in {"upload", "upload_sleep"} =>
          /\ downloaded
          /\ merged = Timeframes
          /\ \A i \in Timeframes :
                newRows[i] >= 0 /\ Len(NewFileFrame(newRows[i])) > 0
    /\ pc = "download" => (merged = {} /\ newRows = EmptyFolder)
    /\ (pc = "global_except" /\ exc.kind \in FetchErrorKinds \cup {"merge"}) =>
          (~upload_successful /\ uploadFails = 0 /\ merged # Timeframes)

\* an upload is about to be made in a later run, after an earlier run failed
C14_Witness ==
    /\ pc = "upload"
    /\ attempt > 0
    /\ merged = Timeframes
    /\ ~published

---------------------------------------------------------------------------
(* Properties of the timestamp text, under SpecTime *)

\* C15: every instant of the column that fetch_binance_data has written is
\* parsed back by merge_datasets as the same instant, and every instant
\* merge_datasets has written is parsed back by the next merge_datasets as
\* the same instant, to the millisecond.
C15_RoundTrip ==
    /\ t_pc \in {"read", "merged", "reread"} =>
          \A i \in 1..Len(raw) : fetchRead[i] = raw[i]
    /\ t_pc = "reread" =>
          \A i \in 1..Len(fetchRead) : mergeRead[i] = fetchRead[i]

\* C16: every open time that fetch_binance_data or merge_datasets writes
\* (missing cells aside) has the form YYYY-MM-DD HH:MM:SS.mmm UTC, with
\* three fractional digits and the UTC suffix.
C16_CanonicalText ==
    /\ t_pc # "raw" =>
          \A i \in 1..Len(fetchFile) :
              fetchFile[i] # NaNText => IsCanonicalText(fetchFile[i])
    /\ t_pc \in {"merged", "reread"} =>
          \A i \in 1..Len(mergeFile) :
              mergeFile[i] # NaNText => IsCanonicalText(mergeFile[i])

\* C20: after the timestamp normalisation of fetch_binance_data every
\* fetched row, the last three included, carries an open time that is
\* present and denotes the instant of the raw value.
C20_EveryRowKeepsItsInstant ==
    t_pc = "fetched" =>
        /\ Len(fetchFile) = Len(raw)
        /\ \A i \in 1..Len(raw) :
              fetchFile[i] # NaNText /\ ParseText(fetchFile[i]) = raw[i]

---------------------------------------------------------------------------
(* Properties of the liveness check and of the retry pause, under Spec *)

\* a liveness check of a client created for a fetch attempt fails in this step
PingFailsInFetch ==
    pc = "connect" /\ caller = "fetch" /\ pc' \notin {"connect", "klines"}

\* C18 (as claimed): every failed liveness check of a client created for a
\* fetch attempt ends that attempt as a failed one, handled by the except
\* block of fetch_binance_data.
C18_EachFailedPingCounts ==
    [][PingFailsInFetch => pc' = "fetch_except"]_vars

\* C18 (amended): every fetch attempt starts by creating a fresh client; a
\* historical-series request is made only in the step after a liveness check
\* that succeeded; a failed liveness check is retried inside
\* create_binance_client, after a pause and a network reset, without a
\* failed fetch attempt being counted, and only the failure of the last of
\* its ClientMaxRetries checks fails the fetch attempt.
C18_PingRetriedInsideCreate ==
    /\ [][pc = "fetch_try" =>
            (pc' = "connect" /\ caller' = "fetch" /\ connAttempt' = 0)]_vars
    /\ [][(pc' = "klines" /\ pc # "klines") =>
            (pc = "connect" /\ exc' = NoExc)]_vars
    /\ [][klinesRequests' > klinesRequests =>
            (pc = "klines" /\ exc = NoExc)]_vars
    /\ [][PingFailsInFetch =>
            /\ exc'.kind = "ping"
            /\ failedAttempts' = failedAttempts
            /\ klinesRequests' = klinesRequests
            /\ pc' = IF connAttempt < ClientMaxRetries - 1
                     THEN "conn_sleep" ELSE "fetch_except"]_vars
    /\ [][(pc = "conn_settle" /\ caller = "fetch") =>
            /\ pc' = "connect"
            /\ connAttempt' = connAttempt + 1
            /\ fetchAttempt' = fetchAttempt
            /\ failedAttempts' = failedAttempts]_vars
    /\ [](pc \in {"conn_sleep", "conn_tor", "conn_settle"} =>
            connAttempt < ClientMaxRetries - 1)

\* two liveness checks of one fetch attempt failed, the third succeeded, and
\* no fetch attempt has failed
C18_Witness ==
    /\ pc = "klines"
    /\ caller = "fetch"
    /\ connAttempt = ClientMaxRetries - 1
    /\ fetchAttempt = 0
    /\ failedAttempts = 0

\* the attempts of fetch_binance_data that a retry can follow
RetriedAttempts == 0..(FetchMaxRetries - 2)

\* C19 (as claimed): after a failed fetch attempt with attempts left the
\* pause comes first, then the network reset, then the next attempt; after
\* the last failed attempt the error is raised with no pause and no reset;
\* and the length of the pause depends on the attempt: the pause after one
\* attempt is not the pause after any other.
C19_BackoffIndexedByAttempt ==
    /\ [][pc = "fetch_except" =>
            pc' = IF fetchAttempt < FetchMaxRetries - 1
                  THEN "fetch_sleep" ELSE "global_except"]_vars
    /\ [][pc = "fetch_sleep" => pc' = "fetch_tor"]_vars
    /\ [][pc = "fetch_tor" => pc' = "fetch_settle"]_vars
    /\ [][pc = "fetch_settle" => pc' = "fetch_try"]_vars
    /\ [](pc = "fetch_tor" =>
            \A a \in RetriedAttempts :
                a # fetchAttempt => backoff # FetchBackoff(a))

\* C19 (amended): after a failed fetch attempt with attempts left the steps
\* are, in this order, a pause of FetchBackoffSeconds, the same after every
\* attempt, the network reset, a second pause, and the next attempt; after
\* the last failed attempt the error is raised at once, with no pause and no
\* reset.
C19_FixedBackoffThenReset ==
    /\ [][pc = "fetch_except" =>
            /\ backoff' = 0
            /\ fetchAttempt' = fetchAttempt
            /\ IF fetchAttempt < FetchMaxRetries - 1
               THEN pc' = "fetch_sleep"
               ELSE pc' = "global_except" /\ fetchOutcome' = "raised"]_vars
    /\ [][pc = "fetch_sleep" =>
            (pc' = "fetch_tor" /\ backoff' = FetchBackoffSeconds)]_vars
    /\ [][pc = "fetch_tor" =>
            (pc' = "fetch_settle" /\ backoff' = backoff)]_vars
    /\ [][pc = "fetch_settle" =>
            (pc' = "fetch_try" /\ fetchAttempt' = fetchAttempt + 1)]_vars
    /\ [](pc \in {"fetch_tor", "fetch_settle"} =>
            backoff = FetchBackoffSeconds)
    /\ [](pc \in {"fetch_sleep", "fetch_tor", "fetch_settle"} =>
            fetchAttempt \in RetriedAttempts)
    /\ [](pc \notin {"fetch_tor", "fetch_settle"} => backoff = 0)

\* the pause after the second failed attempt has been made
C19_Witness ==
    /\ pc = "fetch_tor"
    /\ fetchAttempt = 1
    /\ failedAttempts = 2
    /\ backoff = FetchBackoffSeconds

---------------------------------------------------------------------------
(* Properties of the end of the process, under Spec and SpecLive *)

Terminated == pc \in {"exited", "crashed"}

\* C24: the process ends with a failure status only when main() has failed
\* max_attempts times: no failure of the connection setup, of a fetch or of
\* a merge ends the process by itself.
C24_FailureOnlyAfterBudget ==
    exitStatus = 1 => (attempt = GlobalMaxAttempts /\ runs = GlobalMaxAttempts)

\* C21: with every call returning and the upload succeeding at last, the
\* process ends, and it ends in one of two ways only: with status 0 after a
\* run that completed, or with status 1 after max_attempts failed runs;
\* the publish loop is left by a successful upload only, so with no upload
\* ever succeeding the process neither ends nor reports failure.
C21_TerminatesOneOfTwoWays ==
    /\ <>Terminated
    /\ [](Terminated =>
            \/ exitStatus = 0 /\ upload_successful /\ runs = attempt + 1
            \/ exitStatus = 1 /\ attempt = GlobalMaxAttempts)
    /\ [][(pc \in {"upload", "upload_sleep"}) =>
            (pc' \in {"upload", "upload_sleep"} \/ upload_successful' = TRUE)]_vars

---------------------------------------------------------------------------
(* Properties of upload_to_kaggle and the environment, under SpecProxy *)

\* C22: while the upload call of upload_to_kaggle runs both proxy variables
\* are absent, and after upload_to_kaggle has returned or raised each of
\* them is as it was before the call (the popped value): absent when it was
\* absent, present with the same text when it was present, the empty text
\* included.
C22_ProxyEnvironmentKept ==
    /\ u_pc \in {"uploading", "finally_ok", "finally_exc"} =>
          (env_http = <<>> /\ env_https = <<>>)
    /\ u_pc \in {"returned", "raised"} =>
          /\ env_http = original_http_proxy
          /\ env_https = original_https_proxy

---------------------------------------------------------------------------
(* Properties of the full-history fetcher, under SpecFull *)

\* the timeframes whose fetch returned rows that were written
WrittenTimeframes == {i \in Timeframes : f_result[i] = "written"}

\* C26: a fetch that fails or returns nothing does not end the loop: the
\* timeframes are tried in order, each once, the loop ends only after the
\* fourth, and success_count is the number of timeframes tried so far whose
\* fetch returned rows and wrote them, so it stays within 0..4 and at the
\* end counts exactly those timeframes.
C26_EveryTimeframeCounted ==
    /\ [](f_attempted = [i \in 1..Len(f_attempted) |-> i])
    /\ [](f_pc = "loop" => (f_tf \in Timeframes /\ Len(f_attempted) = f_tf - 1))
    /\ [](success_count = Cardinality(WrittenTimeframes))
    /\ [](success_count \in 0..NumTimeframes)
    /\ [](f_pc = "completed" =>
            /\ Len(f_attempted) = NumTimeframes
            /\ \A i \in Timeframes : f_result[i] # "none")
    /\ [][f_pc = "loop" =>
            /\ f_pc' = IF f_tf < NumTimeframes THEN "loop" ELSE "completed"
            /\ f_attempted' = Append(f_attempted, f_tf)
            /\ f_exit' = f_exit]_vars

\* the loop has ended after a failed fetch, an empty one and two that wrote
C26_Witness ==
    /\ f_pc = "completed"
    /\ f_result[1] = "raised"
    /\ f_result[2] = "empty"
    /\ success_count = 2

===========================================================================
